---- MODULE Spec2Model ----
(***************************************************************************)
(* Model of devops_portal/dashboards/integration/cookiecutter/utils.py:    *)
(* the schema normalizer (generate_context), the visibility evaluator      *)
(* (GeneratedAction.requirements_met), the template renderer               *)
(* (render_context), the field binder (GeneratedAction.__init__) and the   *)
(* wizard step (GeneratedStep.__init__, GeneratedStep.contribute).         *)
(*                                                                         *)
(* Python values are modelled as strings.  The Python constants True,      *)
(* False and None are the strings PyTrue, PyFalse and PyNone, which are    *)
(* different from every string value the model draws.                      *)
(***************************************************************************)
EXTENDS Integers, Sequences, FiniteSets, TLC

VARIABLES
    \* --- visibility evaluator (SpecVis) ---
    item,            \* the fieldset or field descriptor given to requirements_met
    req_context,     \* the context mapping given to requirements_met
    visible,         \* "none" before the call, then the returned "True" / "False"
    \* --- schema normalizer (SpecNorm) ---
    remote_ctx,      \* the fetched JSON value: [kind, items], items in iteration order
    norm_result,     \* << >>, or << [raised, fields] >> after generate_context
    \* --- wizard step and action (Spec) ---
    source_context,  \* the step's and the action's raw template (source_context)
    declared,        \* the contributes the step class declares
    field_templates, \* GeneratedAction.field_templates, the class-level table
    context,         \* the shared wizard context mapping
    context_in,      \* the context as the last operation was given it
    contributes,     \* GeneratedStep.contributes of the constructed step
    step_built,      \* a GeneratedStep has been constructed
    action_built,    \* a GeneratedAction has been constructed (step.action)
    fields,          \* GeneratedAction.fields: the ordered entries bound by the last construction
    rendered,        \* the value the last render_context returned
    data,            \* the data of the last submission given to contribute
    submits,         \* the number of submissions so far
    op,              \* the operation that ran last
    outcome          \* "ok", or the exception the last operation raised

vars == << item, req_context, visible, remote_ctx, norm_result,
           source_context, declared, field_templates, context, context_in, contributes,
           step_built, action_built, fields, rendered, data, submits, op, outcome >>

visVars  == << item, req_context, visible >>
normVars == << remote_ctx, norm_result >>
wizVars  == << source_context, declared, field_templates, context, context_in,
               contributes, step_built, action_built, fields, rendered, data, submits, op, outcome >>

PyTrue  == "py:True"
PyFalse == "py:False"
PyNone  == "py:None"

\* The empty mapping {}.
EmptyMap == << >>

\* All mappings from a subset of keys to values.
Mappings(keys, vals) == UNION { [ks -> vals] : ks \in SUBSET keys }

\* All sequences over S of length at most n.
SeqsUpTo(S, n) == UNION { [1..k -> S] : k \in 0..n }

(***************************************************************************)
(* Visibility evaluator                                                    *)
(***************************************************************************)

\* Most predicates in one requires / requires_or list.
MaxReq == 2

ReqKeys == { "role", "net" }
ReqVals == { "admin", "flat" }

\* A predicate {key: value}: a mapping with the one key.
Predicates == [ key : ReqKeys, value : ReqVals ]

\* Python truth of a mapping: an empty dict is false.
Truthy(m) == DOMAIN m # {}

\* Lines 407-411: a predicate of requires that the context does not match.
RequiresFails(reqs, ctx) ==
    \E i \in 1..Len(reqs) :
        \/ reqs[i].key \notin DOMAIN ctx
        \/ /\ reqs[i].key \in DOMAIN ctx
           /\ ~ (reqs[i].value = ctx[reqs[i].key])

\* Lines 413-418: the number of predicates of requires_or the context matches.
Score(reqs, ctx) ==
    Cardinality({ i \in 1..Len(reqs) :
        reqs[i].key \in DOMAIN ctx /\ reqs[i].value = ctx[reqs[i].key] })

\* GeneratedAction.requirements_met(item, context).
requirements_met(it, ctx) ==
    IF Truthy(ctx) /\ "requires" \in DOMAIN it /\ RequiresFails(it.requires, ctx)
    THEN FALSE
    ELSE IF Truthy(ctx) /\ "requires_or" \in DOMAIN it /\ Score(it.requires_or, ctx) = 0
    THEN FALSE
    ELSE TRUE

PyBool(b) == IF b THEN "True" ELSE "False"

ReqLists == SeqsUpTo(Predicates, MaxReq)

\* Items with and without each of the two clauses.
VisItems ==
    { [ name |-> "f" ] }
    \cup { [ name |-> "f", requires |-> r ] : r \in ReqLists }
    \cup { [ name |-> "f", requires_or |-> o ] : o \in ReqLists }
    \cup { [ name |-> "f", requires |-> r, requires_or |-> o ] : r \in ReqLists, o \in ReqLists }

VisContexts == Mappings(ReqKeys, ReqVals)

CallRequirementsMet ==
    /\ visible = "none"
    /\ visible' = PyBool(requirements_met(item, req_context))
    /\ UNCHANGED << item, req_context, normVars, wizVars >>

(***************************************************************************)
(* Schema normalizer                                                       *)
(***************************************************************************)

\* Most keys in the fetched mapping.
MaxKeys == 2

\* A JSON scalar: a string is its sequence of characters, a boolean or a
\* number keeps its type.
Str(chars) == [ t |-> "str", s |-> chars ]
JsonTrue   == [ t |-> "bool", s |-> << "1" >> ]
JsonFalse  == [ t |-> "bool", s |-> << >> ]
JsonFive   == [ t |-> "int", s |-> << "5" >> ]

Digits == { "0", "1", "2", "3", "4", "5", "6", "7", "8", "9" }

DigitVal(c) ==
    CASE c = "0" -> 0 [] c = "1" -> 1 [] c = "2" -> 2 [] c = "3" -> 3 [] c = "4" -> 4
      [] c = "5" -> 5 [] c = "6" -> 6 [] c = "7" -> 7 [] c = "8" -> 8 [] c = "9" -> 9

\* The parts of a character sequence between its dots.
RECURSIVE Split(_)
Split(chars) ==
    IF \A i \in 1..Len(chars) : chars[i] # "."
    THEN << chars >>
    ELSE LET d == CHOOSE i \in 1..Len(chars) :
                      chars[i] = "." /\ \A j \in 1..(i - 1) : chars[j] # "."
         IN  << SubSeq(chars, 1, d - 1) >> \o Split(SubSeq(chars, d + 1, Len(chars)))

RECURSIVE NumVal(_)
NumVal(part) ==
    IF part = << >> THEN 0
    ELSE 10 * NumVal(SubSeq(part, 1, Len(part) - 1)) + DigitVal(part[Len(part)])

IsNumber(part) == part # << >> /\ \A i \in 1..Len(part) : part[i] \in Digits

RECURSIVE Pow256(_)
Pow256(n) == IF n = 0 THEN 1 ELSE 256 * Pow256(n - 1)

\* A dotted quad: four decimal numbers of at most 255.
IsDottedQuad(chars) ==
    LET parts == Split(chars)
    IN  /\ Len(parts) = 4
        /\ \A i \in 1..4 : IsNumber(parts[i]) /\ NumVal(parts[i]) <= 255

\* socket.inet_aton on a string: one to four numbers between dots, every
\* number but the last at most 255, the last filling the bytes that are
\* left ("a", "a.b", "a.b.c" and "a.b.c.d" are all addresses).  The inputs
\* drawn here have no leading 0, so every number is read in base 10, and a
\* lone number of them is far below 2^32.
inet_aton_ok(chars) ==
    LET parts == Split(chars)
        n     == Len(parts)
    IN  /\ n <= 4
        /\ \A i \in 1..n : IsNumber(parts[i])
        /\ \A i \in 1..(n - 1) : NumVal(parts[i]) <= 255
        /\ (n = 1 \/ NumVal(parts[n]) <= Pow256(5 - n) - 1)

\* _is_ipaddress(addr): "True", "False", or "TypeError" when addr is no
\* string (inet_aton raises TypeError, which except socket.error lets through).
_is_ipaddress(addr) ==
    IF addr.t # "str" THEN "TypeError"
    ELSE IF inet_aton_ok(addr.s) THEN "True"
    ELSE "False"

bool_strings ==
    { Str(<< "t", "r", "u", "e" >>), Str(<< "T", "r", "u", "e" >>),
      Str(<< "f", "a", "l", "s", "e" >>), Str(<< "F", "a", "l", "s", "e" >>) }

\* Python truth of a JSON scalar.
ValueTruthy(v) ==
    CASE v.t = "str"  -> v.s # << >>
      [] v.t = "bool" -> v.s # << >>
      [] v.t = "int"  -> v.s # << "0" >>

\* Line 107: the call of _is_ipaddress, made for a truthy value only, raises.
FieldRaises(value) == ValueTruthy(value) /\ _is_ipaddress(value) = "TypeError"

\* Lines 103-113: the params of one key.
FieldParams(field, value) ==
    IF ~ ValueTruthy(value) THEN [ name |-> field, type |-> "TEXT" ]
    ELSE [ name    |-> field,
           type    |-> IF _is_ipaddress(value) = "True" THEN "IP"
                       ELSE IF value \in bool_strings THEN "BOOL"
                       ELSE "TEXT",
           initial |-> value ]

\* generate_context('github', name, label, url=...) on the fetched value:
\* [raised, fields], fields being ctx[0]['fields'].
generate_context(remote) ==
    IF remote.kind # "dict" THEN [ raised |-> FALSE, fields |-> << >> ]
    ELSE IF \E i \in 1..Len(remote.items) : FieldRaises(remote.items[i][2])
    THEN [ raised |-> TRUE, fields |-> << >> ]
    ELSE [ raised |-> FALSE,
           fields |-> [ i \in 1..Len(remote.items) |->
                           FieldParams(remote.items[i][1], remote.items[i][2]) ] ]

NormKeys == { "k1", "k2", "k3" }

NormValues ==
    { Str(<< "1", "0", ".", "0", ".", "0", ".", "1" >>),
      Str(<< "2", "5", "5", ".", "2", "5", "5", ".", "2", "5", "5", ".", "0" >>),
      Str(<< "2", "5", "6", ".", "1", ".", "1", ".", "1" >>),
      Str(<< "1", ".", "2", ".", "3", ".", "4", ".", "5" >>),
      Str(<< "1", ".", ".", "1" >>),
      Str(<< "1", "0" >>),
      Str(<< "1", ".", "2", ".", "3" >>),
      Str(<< "t", "r", "u", "e" >>),
      Str(<< "F", "a", "l", "s", "e" >>),
      Str(<< "T", "R", "U", "E" >>),
      Str(<< "a", "b", "c" >>),
      Str(<< >>),
      JsonTrue, JsonFalse, JsonFive }

\* The fetched values: a mapping, as its items in iteration order (keys
\* distinct), or a JSON value that is no mapping.
RemoteContexts ==
    { [ kind |-> "list", items |-> << >> ] }
    \cup { [ kind |-> "dict", items |-> its ] :
             its \in { s \in SeqsUpTo(NormKeys \X NormValues, MaxKeys) :
                         \A i, j \in 1..Len(s) : i # j => s[i][1] # s[j][1] } }

GenerateContext ==
    /\ norm_result = << >>
    /\ norm_result' = << generate_context(remote_ctx) >>
    /\ UNCHANGED << remote_ctx, visVars, wizVars >>

(***************************************************************************)
(* Template renderer                                                       *)
(*                                                                         *)
(* A source_context is a YAML document with Jinja2 markup.  The model      *)
(* keeps what the code's calls depend on:                                  *)
(*   syntax_ok  env.from_string / env.parse accept the text                *)
(*   render_ok  tmpl.render(context) returns (no filter or expression      *)
(*              raises)                                                    *)
(*   rendered   what yaml.load makes of the rendered text:                 *)
(*              "list", "scalar" (any value that is no list) or "invalid"  *)
(*   raw        what yaml.load makes of the text as written                *)
(*   uses       variables the text reads in values ({{ var }})             *)
(*   doc        the fieldsets; each field stands in the text either        *)
(*              plainly (when = NoVar) or inside {% if when %}...{% endif %}*)
(***************************************************************************)

NoVar == ""

\* env.globals after line 387 (the custom functions).
Globals == { "generate_ssh_keypair" }

\* A field of the template: the descriptor f, inside {% if when %} unless when = NoVar.
W(when, f) == [ when |-> when, f |-> f ]

\* Jinja2's truth of a context value in {% if var %}.
JinjaTrue(v) == v \notin { "", PyNone, PyFalse }

Range(seq) == { seq[i] : i \in 1..Len(seq) }

\* meta.find_undeclared_variables(parsed_source).
TemplateVars(src) ==
    src.uses \cup
    ({ w.when : w \in UNION { Range(src.doc[i].fields) : i \in 1..Len(src.doc) } }
        \ { NoVar })

\* Lines 391-394: every undeclared variable that is no global and is absent
\* from the context, or None in it, is set to "" in the context.
FillMissing(ctx, keys) ==
    [ k \in DOMAIN ctx \cup keys |->
        IF k \in keys /\ (k \notin DOMAIN ctx \/ ctx[k] = PyNone) THEN "" ELSE ctx[k] ]

\* Lines 468-470: the step sets every such variable to "" in its empty context.
FillAll(keys) == [ k \in keys |-> "" ]

RECURSIVE KeepFields(_, _)
KeepFields(ws, ctx) ==
    IF ws = << >> THEN << >>
    ELSE LET w == Head(ws)
         IN  (IF w.when = NoVar \/ JinjaTrue(ctx[w.when]) THEN << w.f >> ELSE << >>)
             \o KeepFields(Tail(ws), ctx)

\* yaml.load(tmpl.render(context)) when the rendered text is a list: the
\* fieldsets, with the fields whose {% if %} holds.
RenderDoc(doc, ctx) ==
    [ i \in 1..Len(doc) |->
        [ doc[i] EXCEPT !.fields = KeepFields(doc[i].fields, ctx) ] ]

\* yaml.load(source_context) when the text as written is a list: such a
\* text holds no {% if %}, so every field is in it.
RawDoc(doc) ==
    [ i \in 1..Len(doc) |->
        [ doc[i] EXCEPT !.fields = [ j \in 1..Len(doc[i].fields) |-> doc[i].fields[j].f ] ] ]

\* Lines 395-401 / 471-477 with the context already filled:
\* [raised, value].
RenderFilled(src, filled) ==
    IF src.render_ok /\ src.rendered # "invalid"
    THEN [ raised |-> "",
           value  |-> IF src.rendered = "list" THEN RenderDoc(src.doc, filled) ELSE << >> ]
    ELSE IF src.raw = "invalid"
    THEN [ raised |-> "YAMLError", value |-> << >> ]
    ELSE [ raised |-> "",
           value  |-> IF src.raw = "list" THEN RawDoc(src.doc) ELSE << >> ]

\* GeneratedAction.render_context(context): [raised, context, value], context
\* being the caller's mapping as the call leaves it.
render_context(src, ctx) ==
    IF ~ src.syntax_ok
    THEN [ raised |-> "TemplateSyntaxError", context |-> ctx, value |-> << >> ]
    ELSE LET filled == FillMissing(ctx, TemplateVars(src) \ Globals)
             r      == RenderFilled(src, filled)
         IN  [ raised |-> r.raised, context |-> filled, value |-> r.value ]

\* GeneratedStep.render_context(): [raised, value].
step_render_context(src) ==
    IF ~ src.syntax_ok
    THEN [ raised |-> "TemplateSyntaxError", value |-> << >> ]
    ELSE RenderFilled(src, FillAll(TemplateVars(src) \ Globals))

(***************************************************************************)
(* Field binder: GeneratedAction.__init__                                  *)
(***************************************************************************)

\* GeneratedAction.field_templates as the class declares it.
FieldTemplates ==
    [ TEXT      |-> [ class  |-> "CharField",
                      kwargs |-> [ max_length |-> "255", label |-> "", initial |-> "",
                                   required |-> PyTrue, help_text |-> "" ] ],
      LONG_TEXT |-> [ class  |-> "CharField",
                      kwargs |-> [ label |-> "", initial |-> "", required |-> PyTrue,
                                   widget |-> "Textarea", help_text |-> "" ] ],
      IP        |-> [ class  |-> "IPField",
                      kwargs |-> [ label |-> "", initial |-> "", required |-> PyTrue,
                                   mask |-> PyFalse ] ],
      BOOL      |-> [ class  |-> "BooleanField",
                      kwargs |-> [ label |-> "", initial |-> PyFalse, required |-> PyFalse ] ],
      CHOICE    |-> [ class  |-> "ChoiceField",
                      kwargs |-> [ label |-> "", choices |-> << >>, required |-> PyFalse ] ] ]

\* dict.get(key, default).
Get(m, key, default) == IF key \in DOMAIN m THEN m[key] ELSE default

\* Python truth of a scalar of the schema.
ScalarTruthy(v) == v \notin { "", PyNone, PyFalse }

\* deslugify(string): underscores to spaces, first letter to upper case,
\* on the field names the schemas of this model use.
deslugify(string) ==
    CASE string = "cluster_name" -> "Cluster name"
      [] string = "role"         -> "Role"
      [] string = "net"          -> "Net"
      [] string = "gateway"      -> "Gateway"
      [] string = "extra_opt"    -> "Extra opt"
      [] string = "weird"        -> "Weird"
      [] string = "note"         -> "Note"
      [] string = "old"          -> "Old"
      [] OTHER                   -> string

\* copy.deepcopy(self.field_templates): a value of its own.
deepcopy(templates) == templates

\* A lookup that falls back to the TEXT template for a type the table lacks.
LookupTemplate_DefaultText(type, templates) ==
    IF type \in DOMAIN deepcopy(templates) THEN << deepcopy(templates)[type] >>
    ELSE << deepcopy(templates)["TEXT"] >>

\* Lines 349-350: field_templates[field['type']] on the copy: << the
\* template >>, or << >> when the key is missing (KeyError).
LookupTemplate(type, templates) ==
    IF type \in DOMAIN deepcopy(templates) THEN << deepcopy(templates)[type] >> ELSE << >>

\* Lines 355-363: field_kw after the assignments field_kw[...] = ...
SetKwargs(field, fieldset_name, field_kw) ==
    LET base == [ fieldset  |-> fieldset_name,
                  label     |-> IF "label" \in DOMAIN field THEN field.label
                                ELSE deslugify(field.name),
                  help_text |-> Get(field, "help_text", PyNone),
                  initial   |-> Get(field, "initial", PyNone) ]
        chc  == IF field.type = "CHOICE" THEN [ choices |-> field.choices ] ELSE << >>
        msk  == IF field.type = "IP" /\ "mask" \in DOMAIN field
                THEN [ mask |-> field.mask ] ELSE << >>
    IN  msk @@ chc @@ base @@ field_kw

\* The local name field_templates bound to the class-level table itself.
LocalTemplates_NoCopy(templates) ==
    [ table |-> templates, is_class_table |-> TRUE ]

\* Line 349: the local name field_templates: the table it names, and
\* whether that table is the object self.field_templates.  A deep copy
\* shares no dictionary with the table it was made from.
LocalTemplates(templates) ==
    [ table |-> deepcopy(templates), is_class_table |-> FALSE ]

\* self.field_templates after lines 349-363 for one field whose type the
\* table knows: the assignments to field_kw land in the class-level table
\* when the local name is that very object.
TemplatesAfterBind(field, fieldset_name, templates) ==
    LET local == LocalTemplates(templates)
    IN  IF local.is_class_table
        THEN [ local.table EXCEPT
                 ![field.type].kwargs = SetKwargs(field, fieldset_name, @) ]
        ELSE templates

\* Lines 349-372: the bound field of a descriptor whose type the table knows.
BoundField(field, fieldset_name, templates) ==
    LET field_template == LookupTemplate(field.type, templates)[1]
    IN  [ key      |-> field.name,
          class    |-> field_template.class,
          kwargs   |-> SetKwargs(field, fieldset_name, field_template.kwargs),
          readonly |-> ScalarTruthy(Get(field, "readonly", PyFalse)),
          hidden   |-> ScalarTruthy(Get(field, "hidden", PyFalse)) ]

\* Lines 339-342: the marker of a fieldset.
BoundFieldset(fieldset) ==
    [ key      |-> "fieldset_" \o fieldset.name,
      class    |-> "Fieldset",
      kwargs   |-> [ name |-> fieldset.name, label |-> Get(fieldset, "label", PyNone) ],
      readonly |-> FALSE,
      hidden   |-> FALSE ]

\* self.fields[key] = entry on the ordered mapping: a key already there
\* keeps its place, a new key goes last.
Put(entries, entry) ==
    IF \E i \in 1..Len(entries) : entries[i].key = entry.key
    THEN [ i \in 1..Len(entries) |->
             IF entries[i].key = entry.key THEN entry ELSE entries[i] ]
    ELSE Append(entries, entry)

\* Lines 375-376.  self.initial is the context the form was given (Django
\* keeps `initial or {}`: the very mapping unless it was empty), so the
\* assignment lands in the context when `aliased`.
FixInitial(ctx, field, aliased) ==
    IF aliased /\ field.name \in DOMAIN ctx /\ ctx[field.name] \in { "", PyNone }
    THEN [ ctx EXCEPT ![field.name] = Get(field, "initial", PyNone) ]
    ELSE ctx

\* field_templates[field['type']] or field['choices'] raises KeyError.
BindRaises(field, templates) ==
    \/ LookupTemplate(field.type, templates) = << >>
    \/ field.type = "CHOICE" /\ "choices" \notin DOMAIN field

\* Lines 344-376: the loop over the fields of one visible fieldset.
\* st = [fields, ctx, raised, templates]; st.templates is
\* self.field_templates as the loop has left it so far.
RECURSIVE BindFieldList(_, _, _, _)
BindFieldList(flds, fieldset_name, st, aliased) ==
    IF flds = << >> \/ st.raised # "" THEN st
    ELSE LET field == Head(flds)
         IN  IF ~ requirements_met(field, st.ctx)
             THEN BindFieldList(Tail(flds), fieldset_name, st, aliased)
             ELSE IF BindRaises(field, st.templates)
             THEN [ st EXCEPT !.raised = "KeyError" ]
             ELSE BindFieldList(Tail(flds), fieldset_name,
                      [ st EXCEPT
                          !.fields    = Put(@, BoundField(field, fieldset_name, st.templates)),
                          !.ctx       = FixInitial(@, field, aliased),
                          !.templates = TemplatesAfterBind(field, fieldset_name, @) ],
                      aliased)

\* The loop over the fieldsets without the test of line 332.
RECURSIVE BindAll_NoFieldsetTest(_, _, _)
BindAll_NoFieldsetTest(fieldsets, st, aliased) ==
    IF fieldsets = << >> \/ st.raised # "" THEN st
    ELSE LET fieldset == Head(fieldsets)
         IN  BindAll_NoFieldsetTest(Tail(fieldsets),
                 BindFieldList(fieldset.fields, fieldset.name,
                     [ st EXCEPT !.fields = Put(@, BoundFieldset(fieldset)) ],
                     aliased),
                 aliased)

\* Lines 331-376: the loop over the rendered fieldsets.
RECURSIVE BindAll(_, _, _)
BindAll(fieldsets, st, aliased) ==
    IF fieldsets = << >> \/ st.raised # "" THEN st
    ELSE LET fieldset == Head(fieldsets)
         IN  IF ~ requirements_met(fieldset, st.ctx)
             THEN BindAll(Tail(fieldsets), st, aliased)
             ELSE BindAll(Tail(fieldsets),
                      BindFieldList(fieldset.fields, fieldset.name,
                          [ st EXCEPT !.fields = Put(@, BoundFieldset(fieldset)) ],
                          aliased),
                      aliased)

(***************************************************************************)
(* Wizard step: GeneratedStep.__init__ and GeneratedStep.contribute        *)
(***************************************************************************)

\* Lines 437-439: the fields of every fieldset of the rendered schema.
RECURSIVE field_list(_)
field_list(ctx) ==
    IF ctx = << >> THEN << >> ELSE Head(ctx).fields \o field_list(Tail(ctx))

\* The loop of lines 441-443 without the test of line 442.
RECURSIVE AddNames_NoTest(_, _)
AddNames_NoTest(contrib, flds) ==
    IF flds = << >> THEN contrib
    ELSE AddNames_NoTest(Append(contrib, Head(flds).name), Tail(flds))

\* Lines 440-444: contributes, then every name not yet in it.
RECURSIVE AddNames(_, _)
AddNames(contrib, flds) ==
    IF flds = << >> THEN contrib
    ELSE AddNames(IF Head(flds).name \in Range(contrib) THEN contrib
                  ELSE Append(contrib, Head(flds).name),
                  Tail(flds))

\* workflows.Step.contribute (line 450): with data, every key of
\* contributes is set in the context to data.get(key, None).
BaseContribute(dat, ctx, contrib) ==
    IF ~ Truthy(dat) THEN ctx
    ELSE [ k \in DOMAIN ctx \cup Range(contrib) |->
             IF k \in Range(contrib) THEN Get(dat, k, PyNone) ELSE ctx[k] ]

\* Lines 452-453: the option values of the bound fields that have choices.
RECURSIVE Choices(_)
Choices(entries) ==
    IF entries = << >> THEN << >>
    ELSE (IF "choices" \in DOMAIN Head(entries).kwargs
          THEN [ i \in 1..Len(Head(entries).kwargs.choices) |->
                    Head(entries).kwargs.choices[i][1] ]
          ELSE << >>)
         \o Choices(Tail(entries))

Values(m) == { m[k] : k \in DOMAIN m }

\* Lines 454-455: one flag after the other, each from the values the
\* context holds at that moment.
RECURSIVE SetFlags(_, _)
SetFlags(choices, ctx) ==
    IF choices = << >> THEN ctx
    ELSE LET choice == Head(choices)
             flag   == IF choice \in Values(ctx) THEN PyTrue ELSE PyFalse
         IN  SetFlags(Tail(choices),
                      [ k \in DOMAIN ctx \cup { choice } |->
                          IF k = choice THEN flag ELSE ctx[k] ])

\* GeneratedStep.contribute(data, context): the context it leaves.
contribute(dat, ctx, contrib, entries) ==
    SetFlags(Choices(entries), BaseContribute(dat, ctx, contrib))

(***************************************************************************)
(* The schemas, contexts and submissions the wizard is run on              *)
(***************************************************************************)

\* Most fieldsets in a source_context.
MaxFieldsets == 2

\* Most submissions in one run.
MaxSubmits == 1

RoleChoices == << << "admin", "Administrator" >>, << "user", "User" >> >>

General ==
    [ name |-> "general", label |-> "General",
      fields |-> <<
        W(NoVar, [ name |-> "cluster_name", type |-> "TEXT", initial |-> "user" ]),
        W(NoVar, [ name |-> "role", type |-> "CHOICE", choices |-> RoleChoices,
                   help_text |-> "Who deploys" ]) >> ]

Network ==
    [ name |-> "network", label |-> "Network",
      requires |-> << [ key |-> "role", value |-> "admin" ] >>,
      fields |-> <<
        W(NoVar, [ name |-> "net", type |-> "IP", mask |-> PyTrue, initial |-> "flat" ]),
        W(NoVar, [ name |-> "gateway", type |-> "TEXT", readonly |-> PyTrue,
                   requires_or |-> << [ key |-> "user", value |-> PyTrue ],
                                      [ key |-> "net", value |-> "flat" ] >> ]) >> ]

Extra ==
    [ name |-> "extra", label |-> "Extra",
      fields |-> <<
        W("flag", [ name |-> "extra_opt", type |-> "BOOL", hidden |-> PyTrue ]),
        W(NoVar, [ name |-> "cluster_name", type |-> "LONG_TEXT", label |-> "Cluster" ]) >> ]

Broken ==
    [ name |-> "broken", label |-> "Broken",
      fields |-> <<
        W(NoVar, [ name |-> "note", type |-> "IP" ]),
        W(NoVar, [ name |-> "weird", type |-> "PASSWORD",
                   requires |-> << [ key |-> "role", value |-> "user" ] >> ]) >> ]

Legacy ==
    [ name |-> "legacy", label |-> "Legacy",
      requires_or |-> << [ key |-> "role", value |-> "user" ] >>,
      fields |-> <<
        W(NoVar, [ name |-> "old", type |-> "text" ]) >> ]

FieldsetPool == { General, Network, Extra, Broken, Legacy }

\* Documents: fieldsets of the pool, each name once.
Docs ==
    { d \in SeqsUpTo(FieldsetPool, MaxFieldsets) :
        \A i, j \in 1..Len(d) : i # j => d[i].name # d[j].name }

HasGuard(d) == \E i \in 1..Len(d) : \E j \in 1..Len(d[i].fields) : d[i].fields[j].when # NoVar

\* Templates that render and parse to their document.
GoodSources ==
    { [ syntax_ok |-> TRUE, render_ok |-> TRUE, rendered |-> "list",
        raw |-> IF HasGuard(d) THEN "invalid" ELSE "list",
        uses |-> { "generate_ssh_keypair" }, doc |-> d ] : d \in Docs }

ParseKinds == { "list", "scalar", "invalid" }

\* Templates on which a call of the renderer fails or yields no list.
FailSources ==
    { [ syntax_ok |-> sy, render_ok |-> re, rendered |-> rk, raw |-> wk,
        uses |-> { "domain" }, doc |-> << General >> ] :
        sy \in BOOLEAN, re \in BOOLEAN, rk \in ParseKinds, wk \in ParseKinds }

Sources == GoodSources \cup FailSources

\* Contexts a wizard is seeded with.
SeedContexts == Mappings({ "role", "flag" }, { "admin", PyNone })

\* What a user can enter in a bound field.
DataVals == { "admin", "user" }

FieldKeys(entries) ==
    { entries[i].key : i \in { n \in 1..Len(entries) : entries[n].class # "Fieldset" } }

\* The cleaned data of a submission: a value for every bound field.
Submissions(entries) == [ FieldKeys(entries) -> DataVals ]

(***************************************************************************)
(* Operations of the wizard                                                *)
(***************************************************************************)

Outcome(raised) == IF raised = "" THEN "ok" ELSE raised

\* GeneratedStep.__init__ (lines 433-444).
ConstructStep ==
    LET r == step_render_context(source_context)
    IN  /\ op' = "step_init"
        /\ outcome' = Outcome(r.raised)
        /\ rendered' = r.value
        /\ step_built' = (r.raised = "")
        /\ contributes' = IF r.raised = "" THEN AddNames(declared, field_list(r.value))
                          ELSE declared
        /\ context_in' = context
        /\ UNCHANGED << source_context, declared, field_templates, context,
                        action_built, fields, data, submits, visVars, normVars >>

\* GeneratedAction.__init__(request, context) (lines 326-376).
ConstructAction ==
    LET r == render_context(source_context, context)
        b == BindAll(r.value,
                     [ fields |-> << >>, ctx |-> r.context, raised |-> r.raised,
                       templates |-> field_templates ],
                     Truthy(context))
    IN  /\ op' = "action_init"
        /\ outcome' = Outcome(b.raised)
        /\ rendered' = r.value
        /\ context' = b.ctx
        /\ context_in' = context
        /\ action_built' = (b.raised = "")
        /\ fields' = IF b.raised = "" THEN b.fields ELSE << >>
        /\ field_templates' = b.templates
        /\ UNCHANGED << source_context, declared, contributes,
                        step_built, data, submits, visVars, normVars >>

\* A call of GeneratedAction.render_context(context) (lines 382-401).
RenderContext ==
    LET r == render_context(source_context, context)
    IN  /\ op' = "render_context"
        /\ outcome' = Outcome(r.raised)
        /\ rendered' = r.value
        /\ context' = r.context
        /\ context_in' = context
        /\ UNCHANGED << source_context, declared, field_templates, contributes,
                        step_built, action_built, fields, data, submits,
                        visVars, normVars >>

\* A call of GeneratedStep.render_context() (lines 458-477).
StepRenderContext ==
    LET r == step_render_context(source_context)
    IN  /\ op' = "step_render_context"
        /\ outcome' = Outcome(r.raised)
        /\ rendered' = r.value
        /\ context_in' = context
        /\ UNCHANGED << source_context, declared, field_templates, context, contributes,
                        step_built, action_built, fields, data, submits,
                        visVars, normVars >>

\* GeneratedStep.contribute(data, context) (lines 449-456) on the cleaned
\* data of the step's action.
Contribute ==
    /\ step_built
    /\ action_built
    /\ submits < MaxSubmits
    /\ \E dat \in Submissions(fields) :
        /\ data' = dat
        /\ context' = contribute(dat, context, contributes, fields)
    /\ context_in' = context
    /\ submits' = submits + 1
    /\ op' = "contribute"
    /\ outcome' = "ok"
    /\ UNCHANGED << source_context, declared, field_templates, contributes,
                    step_built, action_built, fields, rendered, visVars, normVars >>

(***************************************************************************)
(* Specifications                                                          *)
(***************************************************************************)

VisIdle ==
    /\ item = [ name |-> "f" ]
    /\ req_context = EmptyMap
    /\ visible = "none"

NormIdle ==
    /\ remote_ctx = [ kind |-> "list", items |-> << >> ]
    /\ norm_result = << >>

WizIdle ==
    /\ source_context = [ syntax_ok |-> TRUE, render_ok |-> TRUE, rendered |-> "list",
                          raw |-> "list", uses |-> {}, doc |-> << >> ]
    /\ declared = << >>
    /\ field_templates = FieldTemplates
    /\ context = EmptyMap
    /\ context_in = EmptyMap
    /\ contributes = << >>
    /\ step_built = FALSE
    /\ action_built = FALSE
    /\ fields = << >>
    /\ rendered = << >>
    /\ data = EmptyMap
    /\ submits = 0
    /\ op = "none"
    /\ outcome = "ok"

\* The contributes a step class may declare.
DeclaredContributes == { << >>, << "role" >> }

\* The wizard: a step class with its source_context, and a seeded context.
Init ==
    /\ VisIdle
    /\ NormIdle
    /\ source_context \in Sources
    /\ declared \in DeclaredContributes
    /\ field_templates = FieldTemplates
    /\ context \in SeedContexts
    /\ context_in = context
    /\ contributes = declared
    /\ step_built = FALSE
    /\ action_built = FALSE
    /\ fields = << >>
    /\ rendered = << >>
    /\ data = EmptyMap
    /\ submits = 0
    /\ op = "none"
    /\ outcome = "ok"

Next ==
    \/ ConstructStep
    \/ ConstructAction
    \/ RenderContext
    \/ StepRenderContext
    \/ Contribute

Spec == Init /\ [][Next]_vars

\* The visibility evaluator on every item and context of the bounds.
InitVis ==
    /\ item \in VisItems
    /\ req_context \in VisContexts
    /\ visible = "none"
    /\ NormIdle
    /\ WizIdle

NextVis == CallRequirementsMet

SpecVis == InitVis /\ [][NextVis]_vars

\* The normalizer on every fetched value of the bounds.
InitNorm ==
    /\ remote_ctx \in RemoteContexts
    /\ norm_result = << >>
    /\ VisIdle
    /\ WizIdle

NextNorm == GenerateContext

SpecNorm == InitNorm /\ [][NextNorm]_vars

(***************************************************************************)
(* Claims about the visibility evaluator (SpecVis)                         *)
(***************************************************************************)

\* The context matches the predicate: the key is there with an equal value.
Matches(req, ctx) == req.key \in DOMAIN ctx /\ ctx[req.key] = req.value

AllMatch(reqs, ctx) == \A i \in 1..Len(reqs) : Matches(reqs[i], ctx)

SomeMatch(reqs, ctx) == \E i \in 1..Len(reqs) : Matches(reqs[i], ctx)

\* C1: for every item with a requires list and every context,
\* requirements_met returns True only if every predicate of requires has
\* its key in the context with an equal value; a missing key is a
\* non-match, whatever keys the context holds.
C1_RequiresAllMatch ==
    (visible = "True" /\ "requires" \in DOMAIN item)
        => AllMatch(item.requires, req_context)

\* C2: for every item with a non-empty requires_or and every context,
\* requirements_met returns False when no predicate of requires_or matches,
\* and with both clauses it returns True iff all of requires match and at
\* least one of requires_or matches.
C2_RequiresOrSomeMatch ==
    (visible # "none" /\ "requires_or" \in DOMAIN item /\ Len(item.requires_or) > 0)
        => /\ ~ SomeMatch(item.requires_or, req_context) => visible = "False"
           /\ "requires" \in DOMAIN item
                => (visible = "True"
                      <=> /\ AllMatch(item.requires, req_context)
                          /\ SomeMatch(item.requires_or, req_context))

\* The item without its requires_or key.
WithoutRequiresOr(it) == [ k \in DOMAIN it \ { "requires_or" } |-> it[k] ]

\* C3: an item whose requires_or is an empty list gets, for every context,
\* the result the same item gets without any requires_or key.
C3_EmptyRequiresOrDoesNotBlock ==
    (visible # "none" /\ "requires_or" \in DOMAIN item /\ item.requires_or = << >>)
        => visible = PyBool(requirements_met(WithoutRequiresOr(item), req_context))

(***************************************************************************)
(* Claims about the renderer and the step (Spec)                           *)
(***************************************************************************)

\* C4: render_context, and a GeneratedAction construction that calls it,
\* leave the caller's context mapping with the keys and values it had.
C4_ContextUntouched ==
    [][ op' \in { "render_context", "action_init" } => context' = context ]_vars

RenderOps == { "render_context", "step_render_context", "step_init", "action_init" }

\* C5: render_context never ends with an error: a failed render or parse
\* falls back to the unrendered text, and a failed fallback, like a parsed
\* value that is no sequence, gives the empty sequence.
C5_RenderFailsSoft ==
    op \in RenderOps
        => /\ outcome \notin { "TemplateSyntaxError", "YAMLError" }
           /\ ( /\ ~ (source_context.render_ok /\ source_context.rendered # "invalid")
                /\ source_context.raw # "list" ) => rendered = << >>
           /\ ( /\ source_context.render_ok
                /\ source_context.rendered = "scalar" ) => rendered = << >>

\* C6: after contribute every option value of every CHOICE field is a
\* flag of the context, True iff it is the value the user selected for that
\* field in this submission.
C6_FlagIffSelected ==
    op = "contribute"
        => \A i \in 1..Len(fields) :
              "choices" \in DOMAIN fields[i].kwargs
                => \A c \in 1..Len(fields[i].kwargs.choices) :
                      LET option == fields[i].kwargs.choices[c][1]
                      IN  /\ option \in DOMAIN context
                          /\ context[option] \in { PyTrue, PyFalse }
                          /\ context[option] = PyTrue <=> data[fields[i].key] = option

(***************************************************************************)
(* Claims about the normalizer (SpecNorm)                                  *)
(***************************************************************************)

\* str(value) of a JSON scalar.
StringForm(v) ==
    CASE v.t = "str"  -> v.s
      [] v.t = "int"  -> v.s
      [] v.t = "bool" -> IF v.s # << >> THEN << "T", "r", "u", "e" >>
                         ELSE << "F", "a", "l", "s", "e" >>

\* The type the normalizer is said to give a value.
SaidType(v) ==
    IF v.t = "str" /\ IsDottedQuad(v.s) THEN "IP"
    ELSE IF Str(StringForm(v)) \in bool_strings THEN "BOOL"
    ELSE "TEXT"

\* C7: generate_context gives one field per key, in the mapping's order,
\* of type IP iff the value is a dotted-quad IPv4 address, BOOL iff its
\* string form is one of true, True, false, False, TEXT otherwise, and no
\* value makes it raise.
C7_TypePerValue ==
    (norm_result # << >> /\ remote_ctx.kind = "dict")
        => /\ ~ norm_result[1].raised
           /\ Len(norm_result[1].fields) = Len(remote_ctx.items)
           /\ \A i \in 1..Len(norm_result[1].fields) :
                 /\ norm_result[1].fields[i].name = remote_ctx.items[i][1]
                 /\ norm_result[1].fields[i].type = SaidType(remote_ctx.items[i][2])

(***************************************************************************)
(* Claims about the binder and the step's contributes (Spec)               *)
(***************************************************************************)

Keys(entries) == [ i \in 1..Len(entries) |-> entries[i].key ]

Names(flds) == [ i \in 1..Len(flds) |-> flds[i].name ]

\* A sequence with every later repeat of an element dropped.
RECURSIVE Dedup(_)
Dedup(seq) ==
    IF seq = << >> THEN << >>
    ELSE LET front == Dedup(SubSeq(seq, 1, Len(seq) - 1))
             last  == seq[Len(seq)]
         IN  IF last \in Range(front) THEN front ELSE Append(front, last)

\* The elements of seq that are not in S, in order.
RECURSIVE Without(_, _)
Without(seq, S) ==
    IF seq = << >> THEN << >>
    ELSE (IF Head(seq) \in S THEN << >> ELSE << Head(seq) >>) \o Without(Tail(seq), S)

\* In schema order: every marker followed by every field of its fieldset.
RECURSIVE AllKeys(_)
AllKeys(doc) ==
    IF doc = << >> THEN << >>
    ELSE << "fieldset_" \o Head(doc).name >> \o Names(Head(doc).fields) \o AllKeys(Tail(doc))

HasRequirements(it) == "requires" \in DOMAIN it \/ "requires_or" \in DOMAIN it

NoRequirements(doc) ==
    \A i \in 1..Len(doc) :
        /\ ~ HasRequirements(doc[i])
        /\ \A j \in 1..Len(doc[i].fields) : ~ HasRequirements(doc[i].fields[j])

\* The context the last operation was given, as render_context fills it.
FilledIn == FillMissing(context_in, TemplateVars(source_context) \ Globals)

\* The construction as it stands when the loop reaches fieldset i of the
\* rendered schema, and when it reaches field j of fieldset i.
AtFieldset(i) ==
    BindAll(SubSeq(rendered, 1, i - 1),
            [ fields |-> << >>, ctx |-> FilledIn, raised |-> "",
              templates |-> field_templates ],
            Truthy(context_in))

AtField(i, j) ==
    BindFieldList(SubSeq(rendered[i].fields, 1, j - 1), rendered[i].name,
                  AtFieldset(i), Truthy(context_in))

\* Fieldset i, and field j of it, pass requirements_met under the context
\* of the moment the loop reaches them.
FieldsetPasses(i) == requirements_met(rendered[i], AtFieldset(i).ctx)

FieldPasses(i, j) ==
    FieldsetPasses(i) /\ requirements_met(rendered[i].fields[j], AtField(i, j).ctx)

RECURSIVE PassingNames(_, _)
PassingNames(i, j) ==
    IF j > Len(rendered[i].fields) THEN << >>
    ELSE (IF FieldPasses(i, j) THEN << rendered[i].fields[j].name >> ELSE << >>)
         \o PassingNames(i, j + 1)

\* In schema order, from fieldset i on: the marker of every fieldset that
\* passes, followed by its fields that pass.
RECURSIVE PassingKeys(_)
PassingKeys(i) ==
    IF i > Len(rendered) THEN << >>
    ELSE (IF FieldsetPasses(i)
          THEN << "fieldset_" \o rendered[i].name >> \o PassingNames(i, 1)
          ELSE << >>)
         \o PassingKeys(i + 1)

\* Every bound field has the marker of its fieldset bound.
MarkersBound ==
    \A n \in 1..Len(fields) :
        fields[n].class # "Fieldset"
           => \E i \in 1..Len(rendered) :
                 /\ fields[n].kwargs.fieldset = rendered[i].name
                 /\ fields[n].key \in Range(Names(rendered[i].fields))
                 /\ "fieldset_" \o rendered[i].name \in Range(Keys(fields))

\* C8 as stated: a construction binds, in schema order, exactly the
\* markers of the fieldsets that pass requirements_met and, inside them,
\* the fields that pass; with no requires / requires_or in the schema every
\* field of the schema is bound, in the original order, for every context.
C8_BindsEveryPassingField ==
    (op = "action_init" /\ outcome = "ok")
        => /\ Keys(fields) = PassingKeys(1)
           /\ NoRequirements(rendered) => Keys(fields) = AllKeys(rendered)
           /\ MarkersBound

\* C8 amended: ... binds one entry per name: in schema order, the markers
\* of the fieldsets that pass and the fields that pass, a field whose name
\* is bound already taking the place of the earlier one; with no requires /
\* requires_or every field name of the schema is bound, in the order of
\* first occurrence, for every context.
C8_BindsPassingNamesInOrder ==
    (op = "action_init" /\ outcome = "ok")
        => /\ Keys(fields) = Dedup(PassingKeys(1))
           /\ NoRequirements(rendered) => Keys(fields) = Dedup(AllKeys(rendered))
           /\ MarkersBound

\* C8 witness: under a non-empty context one fieldset of the schema is
\* left out, another is bound without one of its fields.
C8_Witness ==
    /\ op = "action_init" /\ outcome = "ok" /\ Truthy(context_in)
    /\ \E i \in 1..Len(rendered) : ~ FieldsetPasses(i)
    /\ \E i \in 1..Len(rendered) :
          /\ \E j \in 1..Len(rendered[i].fields) : FieldsetPasses(i) /\ ~ FieldPasses(i, j)
          /\ \E j \in 1..Len(rendered[i].fields) :
                FieldPasses(i, j) /\ rendered[i].fields[j].name \in FieldKeys(fields)

\* The names the step finds when it renders the template.
StepNames == Range(Names(field_list(step_render_context(source_context).value)))

\* What C9 says of the construction of the step.
StepContributes ==
    (op = "step_init" /\ outcome = "ok")
        => /\ SubSeq(contributes, 1, Len(declared)) = declared
           /\ SubSeq(contributes, Len(declared) + 1, Len(contributes))
                 = Without(Dedup(Names(field_list(rendered))), Range(declared))
           /\ \A i, j \in 1..Len(contributes) : i # j => contributes[i] # contributes[j]
           /\ \A i \in 1..Len(rendered) :
                 \A j \in 1..Len(rendered[i].fields) :
                    rendered[i].fields[j].name \in Range(contributes)
           /\ Len(rendered) = Len(source_context.doc)
                 => \A i \in 1..Len(rendered) :
                       \A j \in 1..Len(source_context.doc[i].fields) :
                          source_context.doc[i].fields[j].when # NoVar
                             => source_context.doc[i].fields[j].f
                                   \notin Range(rendered[i].fields)

\* C9 as stated: the step's contributes are the declared ones followed by
\* every field name of the schema rendered with an empty context, whatever
\* the requires, no name twice; so every field an action of the same
\* source_context binds under any later context is in contributes.
C9_ContributesCoverAnyContext ==
    /\ StepContributes
    /\ (step_built /\ op = "action_init" /\ outcome = "ok")
          => FieldKeys(fields) \subseteq Range(contributes)

\* C9 amended: ... so every field an action of the same source_context
\* binds is in contributes, provided the schema rendered under the
\* action's context has no field name that the schema rendered with every
\* variable empty lacks.
C9_ContributesCoverSameNames ==
    /\ StepContributes
    /\ ( /\ step_built /\ op = "action_init" /\ outcome = "ok"
         /\ Range(Names(field_list(rendered))) \subseteq StepNames )
          => FieldKeys(fields) \subseteq Range(contributes)

\* C9 witness: a step with declared contributes whose action binds some of
\* the contributed fields and leaves another, which has a requirement, out.
C9_Witness ==
    /\ step_built /\ op = "action_init" /\ outcome = "ok"
    /\ declared # << >>
    /\ Len(contributes) > Len(declared)
    /\ FieldKeys(fields) # {}
    /\ Range(Names(field_list(rendered))) \subseteq StepNames
    /\ \E i \in 1..Len(rendered) : \E j \in 1..Len(rendered[i].fields) :
          /\ HasRequirements(rendered[i].fields[j])
          /\ rendered[i].fields[j].name \in Range(contributes) \ FieldKeys(fields)

RecognizedTypes == { "TEXT", "LONG_TEXT", "IP", "BOOL", "CHOICE" }

\* The loop reaches a field that passes requirements_met, in a fieldset
\* that passes, and whose type is none of the five.
UnknownTypeReached ==
    \E i \in 1..Len(rendered) : \E j \in 1..Len(rendered[i].fields) :
        /\ FieldPasses(i, j)
        /\ rendered[i].fields[j].type \notin RecognizedTypes

\* C10: a construction that reaches a visible field whose type is none of
\* TEXT, LONG_TEXT, IP, BOOL, CHOICE ends with an error and binds nothing,
\* under every context; a bound field always has the class of the
\* recognized type of a field of that name.
C10_UnknownTypeAborts ==
    (op = "action_init" /\ outcome \notin { "TemplateSyntaxError", "YAMLError" })
        => /\ UnknownTypeReached
                 => (outcome = "KeyError" /\ ~ action_built /\ fields = << >>)
           /\ \A n \in 1..Len(fields) :
                 fields[n].class # "Fieldset"
                    => \E i \in 1..Len(rendered) : \E j \in 1..Len(rendered[i].fields) :
                          /\ rendered[i].fields[j].name = fields[n].key
                          /\ rendered[i].fields[j].type \in RecognizedTypes
                          /\ fields[n].class
                                = FieldTemplates[rendered[i].fields[j].type].class

\* C10 witness: under a non-empty context a construction reached a field
\* of an unrecognized type, after binding others, and raised.
C10_Witness ==
    /\ op = "action_init" /\ outcome = "KeyError" /\ Truthy(context_in)
    /\ \E i \in 1..Len(rendered) : \E j \in 1..Len(rendered[i].fields) :
          /\ FieldPasses(i, j)
          /\ rendered[i].fields[j].type \notin RecognizedTypes
          /\ AtField(i, j).raised = ""
          /\ AtField(i, j).fields # << >>
          /\ HasRequirements(rendered[i].fields[j])

\* Entry n of fields is what lines 349-365 make of a field of the rendered
\* schema that the loop reached, starting from the kwargs the class
\* declares for its type.
BoundFromDefaults(n) ==
    \E i \in 1..Len(rendered) : \E j \in 1..Len(rendered[i].fields) :
        /\ FieldPasses(i, j)
        /\ rendered[i].fields[j].name = fields[n].key
        /\ rendered[i].fields[j].type \in RecognizedTypes
        /\ fields[n].kwargs
              = SetKwargs(rendered[i].fields[j], rendered[i].name,
                          FieldTemplates[rendered[i].fields[j].type].kwargs)

\* C11: the class-level field_templates table is never mutated: after any
\* sequence of constructions, submissions and renderings it holds the
\* kwargs the class declares for all five types, and every field a
\* construction binds gets, for each kwarg its descriptor does not set,
\* the declared default of its type and not a value bound for another
\* field or in an earlier construction.
C11_TemplatesNeverMutated ==
    /\ field_templates = FieldTemplates
    /\ (op = "action_init" /\ outcome = "ok")
          => \A n \in 1..Len(fields) :
                fields[n].class # "Fieldset" => BoundFromDefaults(n)

\* C11 witness: a construction after an earlier construction and its
\* submission bound an IP field with mask True and, after it, an IP field
\* whose descriptor has no mask, which got the declared mask False.
C11_Witness ==
    /\ op = "action_init" /\ outcome = "ok" /\ submits > 0
    /\ field_templates = FieldTemplates
    /\ \E m, n \in 1..Len(fields) :
          /\ m < n
          /\ fields[m].class = "IPField" /\ fields[m].kwargs.mask = PyTrue
          /\ fields[n].class = "IPField" /\ fields[n].kwargs.mask = PyFalse
          /\ fields[n].kwargs.fieldset # fields[m].kwargs.fieldset

====
